---- MODULE Spec2Model ----
(***************************************************************************)
(* A model of crypto_signal_tester.py: the signal parser (parse_signal and *)
(* its _extract_* helpers), the paginated fetch loop                       *)
(* (fetch_historical_data) and the bar-by-bar evaluator (test_signal).     *)
(*                                                                         *)
(* Three specifications share the variables:                               *)
(*   Spec       test_signal: the walk over the bars after the entry bar    *)
(*   SpecParse  parse_signal applied to a signal text                      *)
(*   SpecFetch  the while loop of fetch_historical_data                    *)
(*                                                                         *)
(* Python's None is modelled by the empty sequence <<>> and a value v that *)
(* may be None by <<v>>.  A pandas frame is a sequence of rows             *)
(* [ts |-> timestamp, close |-> close price]; the other OHLCV columns are  *)
(* never read by the program.                                              *)
(***************************************************************************)
EXTENDS Integers, Sequences, FiniteSets, TLC

VARIABLES
    pc,           \* position of the running operation
    signal,       \* the signal dict handed to test_signal
    provider,     \* what fetch_historical_data does when test_signal calls it
    fetch_calls,  \* number of calls of fetch_historical_data made by test_signal
    data,         \* test_signal: the frame filtered to index >= signal_time
    i,            \* test_signal: loop variable of the walk (0-based, as in the code)
    results,      \* test_signal: the results dict
    error,        \* the message of the exception raised, "" when none
    signal_text,  \* parse_signal: the signal text
    utc_now,      \* parse_signal: datetime.now(pytz.utc) at the call
    parsed,       \* parse_signal: the dict returned, NoSignal when none
    all_ohlcv,    \* fetch_historical_data: the list of page frames
    fetch_position, \* fetch_historical_data: its local current_time
    attempts,     \* fetch_historical_data: failed attempts in a row
    full_df       \* fetch_historical_data: the frame returned

evalVars == <<signal, provider, fetch_calls, data, i, results>>

parseVars == <<signal_text, utc_now, parsed>>

fetchVars == <<all_ohlcv, fetch_position, attempts, full_df>>

vars == <<pc, error, evalVars, parseVars, fetchVars>>

----------------------------------------------------------------------------
(* Bounds of the model *)

\* test_signal: rows of the frame the provider returns
MaxBars == 3

\* fetch_historical_data: end_time, in hours after start_time
EndTime == 3

\* fetch_historical_data: rows of one page (limit=1000 in line 175)
MaxPage == 2

Prices == 1..4

\* Bar timestamps are hours counted from the first bar of the provider's frame.
SignalTimes == {0, 1}

----------------------------------------------------------------------------
(* Helpers *)

None == <<>>

Some(v) == <<v>>

IsNone(o) == o = <<>>

Val(o) == o[1]

\* sorted(xs) and sorted(xs, reverse=True) on a list of numbers
RECURSIVE Insert(_, _, _)
Insert(x, s, reverse) ==
    IF s = <<>> THEN <<x>>
    ELSE IF (~reverse /\ x <= Head(s)) \/ (reverse /\ x >= Head(s))
         THEN <<x>> \o s
         ELSE <<Head(s)>> \o Insert(x, Tail(s), reverse)

RECURSIVE Sorted(_, _)
Sorted(s, reverse) ==
    IF s = <<>> THEN <<>> ELSE Insert(Head(s), Sorted(Tail(s), reverse), reverse)

----------------------------------------------------------------------------
(* Signal texts *)

(***************************************************************************)
(* A text is the sequence of its whitespace-separated tokens, and a string *)
(* the parser converts is the sequence of its characters.  The tokens:     *)
(*   pair    a word with a slash, e.g. BTC/USDT                            *)
(*   kw      buy, sell, entry, long, short, sl, stop loss, stoploss        *)
(*   at      the word at                                                   *)
(*   tp      TP, TP1, TPs, TP:, TPs: (digits, plural s, colon)             *)
(*   num     a maximal run of the characters [0-9.,]                       *)
(*   time:   the prefix Time:                                              *)
(*   stamp   a date with an optional clock, in one of the written styles   *)
(* The patterns are matched case-insensitively (re.IGNORECASE) and read    *)
(* \s* between their parts, so they are matched on adjacent tokens.        *)
(***************************************************************************)

Kw(w) == [k |-> "kw", w |-> w]

At == [k |-> "at"]

Num(s) == [k |-> "num", s |-> s]

Tp(digits, plural, colon) ==
    [k |-> "tp", digits |-> digits, plural |-> plural, colon |-> colon]

TimePrefix == [k |-> "time:"]

\* clock: "none" (date only), "hm" (HH:MM) or "hms" (HH:MM:SS)
Stamp(style, y, mo, d, clock, h, mi, sec) ==
    [k |-> "stamp", style |-> style, y |-> y, mo |-> mo, d |-> d,
     clock |-> clock, h |-> h, mi |-> mi, sec |-> sec]

Pair(chars) == [k |-> "pair", s |-> chars]

Has(text, p, kind) == p >= 1 /\ p <= Len(text) /\ text[p].k = kind

IsKw(text, p, words) == Has(text, p, "kw") /\ text[p].w \in words

Digits == {"0", "1", "2", "3", "4", "5", "6", "7", "8", "9"}

DigitVal(c) ==
    CASE c = "0" -> 0 [] c = "1" -> 1 [] c = "2" -> 2 [] c = "3" -> 3
      [] c = "4" -> 4 [] c = "5" -> 5 [] c = "6" -> 6 [] c = "7" -> 7
      [] c = "8" -> 8 [] c = "9" -> 9

\* The result of an extraction: a value, or the message of the ValueError
Ok(v) == [ok |-> TRUE, val |-> v, err |-> ""]

Fail(msg) == [ok |-> FALSE, val |-> <<>>, err |-> msg]

MinOfSet(S) == CHOOSE x \in S : \A y \in S : x <= y

\* x.replace(',', '')
StripCommas(chars) == SelectSeq(chars, LAMBDA c : c # ",")

\* x.strip()
RECURSIVE Strip(_)
Strip(chars) ==
    IF chars # <<>> /\ Head(chars) = " " THEN Strip(Tail(chars))
    ELSE IF chars # <<>> /\ chars[Len(chars)] = " "
         THEN Strip(SubSeq(chars, 1, Len(chars) - 1))
    ELSE chars

\* The digits of chars read as one integer
RECURSIVE DigitsValue(_)
DigitsValue(chars) ==
    IF chars = <<>> THEN 0
    ELSE DigitsValue(SubSeq(chars, 1, Len(chars) - 1)) * 10
           + DigitVal(chars[Len(chars)])

\* A decimal m / 10^e without trailing zeros in its fraction
RECURSIVE Normal(_, _)
Normal(m, e) ==
    IF e > 0 /\ m % 10 = 0 THEN Normal(m \div 10, e - 1) ELSE [m |-> m, e |-> e]

\* float(chars) for a string of the characters [0-9. ]: digits with at most
\* one point and at least one digit, else ValueError
ParseFloat(raw) ==
    LET chars  == Strip(raw)
        points == {p \in 1..Len(chars) : chars[p] = "."}
        digs   == SelectSeq(chars, LAMBDA c : c \in Digits)
    IN  IF /\ \A p \in 1..Len(chars) : chars[p] \in Digits \cup {"."}
           /\ Cardinality(points) <= 1
           /\ digs # <<>>
        THEN Ok(Normal(DigitsValue(digs),
                       IF points = {} THEN 0
                       ELSE Len(chars) - (CHOOSE p \in points : TRUE)))
        ELSE Fail("could not convert string to float")

\* lines 66-86: the three patterns, as the positions where each matches
DirectionMatches(text, rule) ==
    CASE rule = 1 -> {p \in 1..Len(text) :
                        /\ IsKw(text, p, {"buy", "sell"})
                        /\ Has(text, p + 1, "at")
                        /\ Has(text, p + 2, "num")}
      [] rule = 2 -> {p \in 1..Len(text) :
                        /\ IsKw(text, p, {"entry", "long", "short"})
                        /\ Has(text, p + 1, "num")}
      [] rule = 3 -> {p \in 1..Len(text) :
                        /\ Has(text, p, "num")
                        /\ IsKw(text, p + 1, {"buy", "sell"})}

\* the direction word and the price text of the leftmost match of a rule
DirectionCapture(text, rule) ==
    LET p == MinOfSet(DirectionMatches(text, rule))
    IN  CASE rule = 1 -> [word |-> text[p].w, price |-> text[p + 2].s]
          [] rule = 2 -> [word |-> text[p].w, price |-> text[p + 1].s]
          [] rule = 3 -> [word |-> text[p + 1].w, price |-> text[p].s]

\* lines 78-82
NormalDirection(word) ==
    IF word \in {"long", "entry"} THEN "buy"
    ELSE IF word = "short" THEN "sell"
    ELSE word

\* lines 75-86: the loop over the patterns, from rule on
RECURSIVE ExtractDirectionFrom(_, _)
ExtractDirectionFrom(text, rule) ==
    IF rule > 3
    THEN Fail("Could not determine trade direction and entry price")
    ELSE IF DirectionMatches(text, rule) # {}
         THEN LET cap   == DirectionCapture(text, rule)
                  price == ParseFloat(StripCommas(cap.price))
              IN  IF price.ok
                  THEN Ok([direction |-> NormalDirection(cap.word),
                           price |-> price.val])
                  ELSE price      \* float raises: line 83 has no handler
         ELSE ExtractDirectionFrom(text, rule + 1)

extract_direction_and_price(text) == ExtractDirectionFrom(text, 1)

\* line 42: the keywords, each as its tokens
StopLossKeywords ==
    << <<Kw("sl"), At>>, <<Kw("stop loss"), At>>, <<Kw("stoploss"), At>>,
       <<Kw("sl")>>, <<Kw("stop loss")>>, <<Kw("stoploss")>> >>

\* the tokens pat followed by a number, at position p
MatchesAt(text, p, pat) ==
    /\ \A q \in 1..Len(pat) : p + q - 1 <= Len(text) /\ text[p + q - 1] = pat[q]
    /\ Has(text, p + Len(pat), "num")

\* lines 92-95: "keyword at price" first, then "keyword price"; the price
\* text of the leftmost match, None when neither pattern matches
KeywordCapture(text, keyword) ==
    LET with_at == {p \in 1..Len(text) : MatchesAt(text, p, keyword \o <<At>>)}
        bare    == {p \in 1..Len(text) : MatchesAt(text, p, keyword)}
    IN  IF with_at # {}
        THEN Some(text[MinOfSet(with_at) + Len(keyword) + 1].s)
        ELSE IF bare # {}
        THEN Some(text[MinOfSet(bare) + Len(keyword)].s)
        ELSE None

\* lines 88-98: the loop over the keywords, from index n on
RECURSIVE ExtractPriceFrom(_, _, _)
ExtractPriceFrom(text, keywords, n) ==
    IF n > Len(keywords) THEN Fail("Could not find price for any of the keywords")
    ELSE LET cap == KeywordCapture(text, keywords[n])
         IN  IF ~IsNone(cap)
             THEN ParseFloat(StripCommas(Val(cap)))   \* line 97, no handler
             ELSE ExtractPriceFrom(text, keywords, n + 1)

extract_price(text, keywords) == ExtractPriceFrom(text, keywords, 1)

\* the tp tokens that can start a "TP<digits?>" pattern: no s, no colon
PlainTp(text, p) == Has(text, p, "tp") /\ ~text[p].plural /\ ~text[p].colon

\* line 103: TP\d*\s*at\s*([\d.,]+)
TpRule1Matches(text) ==
    {p \in 1..Len(text) :
        PlainTp(text, p) /\ Has(text, p + 1, "at") /\ Has(text, p + 2, "num")}

\* line 108: TP\d*\s*([\d.,]+); when no number follows the token, \d* gives
\* back its last digit and that digit is the capture
TpRule2Matches(text) ==
    {p \in 1..Len(text) :
        /\ Has(text, p, "tp")
        /\ \/ PlainTp(text, p) /\ Has(text, p + 1, "num")
           \/ text[p].digits # <<>>}

TpRule2Capture(text, p) ==
    IF PlainTp(text, p) /\ Has(text, p + 1, "num")
    THEN text[p + 1].s
    ELSE <<text[p].digits[Len(text[p].digits)]>>

\* line 113: TPs?:?\s*([\d.,]+(?:\s*,\s*[\d.,]+)*)
TpRule3Matches(text) ==
    {p \in 1..Len(text) :
        /\ Has(text, p, "tp")
        /\ \/ text[p].digits # <<>>
           \/ Has(text, p + 1, "num")}

\* the group (?:\s*,\s*[\d.,]+)* from token q on: each further piece starts
\* with a comma after the whitespace
RECURSIVE ListTail(_, _)
ListTail(text, q) ==
    IF Has(text, q, "num") /\ Head(text[q].s) = ","
    THEN IF Len(text[q].s) > 1
         THEN <<" ">> \o text[q].s \o ListTail(text, q + 1)
         ELSE IF Has(text, q + 1, "num")
              THEN <<" ", ",", " ">> \o text[q + 1].s \o ListTail(text, q + 2)
              ELSE <<>>
    ELSE <<>>

TpRule3Capture(text, p) ==
    IF text[p].digits # <<>>
    THEN text[p].digits
    ELSE text[p + 1].s \o ListTail(text, p + 2)

\* lines 119-120: TP\s*at\s*([\d.,]+), else TP\s*([\d.,]+)
TpRule4Capture(text) ==
    LET plain   == {p \in 1..Len(text) : PlainTp(text, p) /\ text[p].digits = <<>>}
        with_at == {p \in plain : Has(text, p + 1, "at") /\ Has(text, p + 2, "num")}
        bare    == {p \in plain : Has(text, p + 1, "num")}
    IN  IF with_at # {} THEN Some(text[MinOfSet(with_at) + 2].s)
        ELSE IF bare # {} THEN Some(text[MinOfSet(bare) + 1].s)
        ELSE None

\* x.split(',')
RECURSIVE Split(_, _)
Split(chars, piece) ==
    IF chars = <<>> THEN <<piece>>
    ELSE IF Head(chars) = "," THEN <<piece>> \o Split(Tail(chars), <<>>)
    ELSE Split(Tail(chars), Append(piece, Head(chars)))

\* [float(x) for x in strings]: the list, or the first ValueError
RECURSIVE FloatAll(_)
FloatAll(strings) ==
    IF strings = <<>> THEN Ok(<<>>)
    ELSE LET first == ParseFloat(Head(strings))
             rest  == FloatAll(Tail(strings))
         IN  IF ~first.ok THEN first
             ELSE IF ~rest.ok THEN rest
             ELSE Ok(<<first.val>> \o rest.val)

\* the elements of a set of positions in increasing order
RECURSIVE InOrder(_)
InOrder(S) ==
    IF S = {} THEN <<>> ELSE <<MinOfSet(S)>> \o InOrder(S \ {MinOfSet(S)})

\* lines 100-124
extract_take_profits(text) ==
    IF TpRule1Matches(text) # {}
    THEN LET at == InOrder(TpRule1Matches(text))
         IN  FloatAll([n \in 1..Len(at) |-> StripCommas(text[at[n] + 2].s)])
    ELSE IF TpRule2Matches(text) # {}
    THEN LET at == InOrder(TpRule2Matches(text))
         IN  FloatAll([n \in 1..Len(at) |->
                          StripCommas(TpRule2Capture(text, at[n]))])
    ELSE IF TpRule3Matches(text) # {}
    THEN FloatAll(Split(TpRule3Capture(text, MinOfSet(TpRule3Matches(text))), <<>>))
    ELSE IF ~IsNone(TpRule4Capture(text))
    THEN LET tp == ParseFloat(StripCommas(Val(TpRule4Capture(text))))
         IN  IF tp.ok THEN Ok(<<tp.val>>) ELSE tp
    ELSE Fail("Could not find take profit levels")

\* lines 128-147: pattern and format; clock says that the pattern asks for
\* HH:MM with optional :SS and that the format is "... %H:%M:%S"
TimePattern(prefix, style, clock) ==
    [prefix |-> prefix, style |-> style, clock |-> clock]

time_patterns ==
    << TimePattern(TRUE, "iso", TRUE),     \* time: YYYY-MM-DD HH:MM[:SS]
       TimePattern(TRUE, "slash", TRUE),   \* time: YYYY/MM/DD HH:MM[:SS]
       TimePattern(TRUE, "dmon", TRUE),    \* time: DD-Mon-YYYY HH:MM[:SS]
       TimePattern(TRUE, "us", TRUE),      \* time: MM/DD/YYYY HH:MM[:SS]
       TimePattern(FALSE, "iso", TRUE),
       TimePattern(FALSE, "slash", TRUE),
       TimePattern(FALSE, "dmon", TRUE),
       TimePattern(FALSE, "us", TRUE),
       TimePattern(FALSE, "dot", TRUE),    \* DD.MM.YYYY HH:MM[:SS]
       TimePattern(TRUE, "iso", FALSE),    \* time: YYYY-MM-DD
       TimePattern(TRUE, "slash", FALSE),
       TimePattern(FALSE, "iso", FALSE),
       TimePattern(FALSE, "slash", FALSE) >>

\* line 150: the positions where a pattern matches
TimeMatches(text, pat) ==
    {p \in 1..Len(text) :
        /\ Has(text, p, "stamp")
        /\ text[p].style = pat.style
        /\ pat.prefix => Has(text, p - 1, "time:")
        /\ pat.clock => text[p].clock # "none"}

DateTime(y, mo, d, h, mi, sec) ==
    [y |-> y, mo |-> mo, d |-> d, h |-> h, mi |-> mi, sec |-> sec]

DaysIn(y, mo) ==
    IF mo = 2
    THEN IF y % 4 = 0 /\ (y % 100 # 0 \/ y % 400 = 0) THEN 29 ELSE 28
    ELSE IF mo \in {4, 6, 9, 11} THEN 30 ELSE 31

\* line 153: datetime.strptime of the matched text under the pattern's
\* format; a format with %H:%M:%S does not parse a text without seconds
Strptime(stamp, pat) ==
    LET date_ok == /\ stamp.y >= 1
                   /\ stamp.mo \in 1..12
                   /\ stamp.d \in 1..DaysIn(stamp.y, stamp.mo)
    IN  IF pat.clock
        THEN IF /\ stamp.clock = "hms"
                /\ date_ok
                /\ stamp.h <= 23 /\ stamp.mi <= 59 /\ stamp.sec <= 59
             THEN Ok(DateTime(stamp.y, stamp.mo, stamp.d,
                              stamp.h, stamp.mi, stamp.sec))
             ELSE Fail("does not match format")
        ELSE IF date_ok
             THEN Ok(DateTime(stamp.y, stamp.mo, stamp.d, 0, 0, 0))
             ELSE Fail("does not match format")

\* lines 149-158: the loop over the patterns, from index n on
RECURSIVE ExtractTimeFrom(_, _)
ExtractTimeFrom(text, n) ==
    IF n > Len(time_patterns) THEN Fail("Could not find valid time in signal")
    ELSE LET pat == time_patterns[n]
         IN  IF TimeMatches(text, pat) # {}
                  /\ Strptime(text[MinOfSet(TimeMatches(text, pat))], pat).ok
             THEN Strptime(text[MinOfSet(TimeMatches(text, pat))], pat)
             ELSE ExtractTimeFrom(text, n + 1)   \* no match, or line 155-156

extract_time(text) == ExtractTimeFrom(text, 1)

\* a > b for two datetimes
Later(a, b) ==
    LET A == <<a.y, a.mo, a.d, a.h, a.mi, a.sec>>
        B == <<b.y, b.mo, b.d, b.h, b.mi, b.sec>>
    IN  \E n \in 1..6 : A[n] > B[n] /\ \A m \in 1..(n - 1) : A[m] = B[m]

Letters ==
    << <<"a", "A">>, <<"b", "B">>, <<"c", "C">>, <<"d", "D">>, <<"e", "E">>,
       <<"h", "H">>, <<"s", "S">>, <<"t", "T">>, <<"u", "U">> >>

IsLetter(c) == \E n \in 1..Len(Letters) : c \in {Letters[n][1], Letters[n][2]}

\* str.upper on one character
UpperChar(c) ==
    IF \E n \in 1..Len(Letters) : Letters[n][1] = c
    THEN Letters[CHOOSE n \in 1..Len(Letters) : Letters[n][1] = c][2]
    ELSE c

\* lines 33-36: ([A-Z]{3,}\/[A-Z]{3,}) with re.IGNORECASE, then .upper()
extract_pair(text) ==
    LET ok(p) == /\ Has(text, p, "pair")
                 /\ \E sl \in 1..Len(text[p].s) :
                      /\ text[p].s[sl] = "/"
                      /\ sl - 1 >= 3 /\ Len(text[p].s) - sl >= 3
                      /\ \A n \in 1..Len(text[p].s) :
                           n # sl => IsLetter(text[p].s[n])
        at    == {p \in 1..Len(text) : ok(p)}
    IN  IF at = {} THEN Fail("Could not find trading pair in signal")
        ELSE LET found == text[MinOfSet(at)].s
             IN  Ok([n \in 1..Len(found) |-> UpperChar(found[n])])

\* parse_signal with a stop-loss that is left empty when none is found
parse_signal_Partial(text, current_time) ==
    LET pair         == extract_pair(text)
        dir_entry    == extract_direction_and_price(text)
        stop_loss    == extract_price(text, StopLossKeywords)
        take_profits == extract_take_profits(text)
        signal_time  == extract_time(text)
    IN  IF ~pair.ok THEN pair
        ELSE IF ~dir_entry.ok THEN dir_entry
        ELSE IF ~take_profits.ok THEN take_profits
        ELSE IF ~signal_time.ok THEN signal_time
        ELSE IF Later(signal_time.val, current_time)
             THEN Fail("Signal time cannot be in the future")
        ELSE Ok([ pair         |-> pair.val,
                  direction    |-> dir_entry.val.direction,
                  entry        |-> dir_entry.val.price,
                  stop_loss    |-> IF stop_loss.ok THEN stop_loss.val ELSE None,
                  take_profits |-> take_profits.val,
                  signal_time  |-> signal_time.val ])

\* lines 29-64: the signal dict, or the ValueError that wraps the first
\* exception raised; current_time is datetime.now(pytz.utc) of line 51
parse_signal(text, current_time) ==
    LET pair         == extract_pair(text)
        dir_entry    == extract_direction_and_price(text)
        stop_loss    == extract_price(text, StopLossKeywords)
        take_profits == extract_take_profits(text)
        signal_time  == extract_time(text)
    IN  IF ~pair.ok THEN pair
        ELSE IF ~dir_entry.ok THEN dir_entry
        ELSE IF ~stop_loss.ok THEN stop_loss
        ELSE IF ~take_profits.ok THEN take_profits
        ELSE IF ~signal_time.ok THEN signal_time
        ELSE IF Later(signal_time.val, current_time)
             THEN Fail("Signal time cannot be in the future")
        ELSE Ok([ pair         |-> pair.val,
                  direction    |-> dir_entry.val.direction,
                  entry        |-> dir_entry.val.price,
                  stop_loss    |-> stop_loss.val,
                  take_profits |-> take_profits.val,
                  signal_time  |-> signal_time.val ])

----------------------------------------------------------------------------
(* test_signal *)

\* SortTakeProfits without the sort: the levels in text order
SortTakeProfits_TextOrder(sig) == sig.take_profits

\* SortTakeProfits that sorts ascending whatever the direction
SortTakeProfits_Ascending(sig) == Sorted(sig.take_profits, FALSE)

\* SortTakeProfits with the two orders exchanged
SortTakeProfits_Reversed(sig) ==
    IF sig.direction = "buy"
    THEN Sorted(sig.take_profits, TRUE)
    ELSE Sorted(sig.take_profits, FALSE)

\* lines 247-251: ascending for buy, descending for sell
SortTakeProfits(sig) ==
    IF sig.direction = "buy"
    THEN Sorted(sig.take_profits, FALSE)
    ELSE Sorted(sig.take_profits, TRUE)

\* line 237: data[data.index >= signal['signal_time']]
FilterFrom(frame, t) == SelectSeq(frame, LAMBDA row : row.ts >= t)

\* lines 254-258: the first index value >= signal_time of the filtered frame
EntryIdx(frame, t) ==
    IF \E k \in 1..Len(frame) : frame[k].ts >= t
    THEN Some(frame[CHOOSE k \in 1..Len(frame) :
                     /\ frame[k].ts >= t
                     /\ \A m \in 1..(k - 1) : frame[m].ts < t].ts)
    ELSE None

\* GetLoc that makes the walk start on the entry bar itself
GetLoc_EntryTested(frame, label) ==
    LET at == {k \in 1..Len(frame) : frame[k].ts = label}
    IN  IF Cardinality(at) = 1
        THEN [kind |-> "int", pos |-> (CHOOSE k \in at : TRUE) - 2]
        ELSE [kind |-> "slice", pos |-> 0]

\* line 263: data.index.get_loc(entry_idx) on a sorted index: the 0-based
\* position when the label occurs once, a slice when it occurs several times
GetLoc(frame, label) ==
    LET at == {k \in 1..Len(frame) : frame[k].ts = label}
    IN  IF Cardinality(at) = 1
        THEN [kind |-> "int", pos |-> (CHOOSE k \in at : TRUE) - 1]
        ELSE [kind |-> "slice", pos |-> 0]

\* lines 301-306
sl_condition(direction, current_price, stop_loss) ==
    IF direction = "buy" THEN current_price <= stop_loss
                         ELSE current_price >= stop_loss

tp_condition(direction, current_price, tp) ==
    IF direction = "buy" THEN current_price >= tp
                         ELSE current_price <= tp

NoResult == [kind |-> "None", k |-> 0, total |-> 0]

\* lines 266-285; test_period and price_data repeat data and are left out
InitialResults(sig, frame, entry_idx, take_profits) ==
    [ pair           |-> sig.pair,
      direction      |-> sig.direction,
      entry_price    |-> sig.entry,
      entry_time     |-> entry_idx,
      signal_time    |-> sig.signal_time,
      stop_loss      |-> sig.stop_loss,
      take_profits   |-> take_profits,
      tp_hit         |-> <<>>,
      tp_hit_time    |-> <<>>,    \* the keys tp{j+1}_hit_time, by 0-based j
      sl_hit         |-> FALSE,
      sl_hit_time    |-> None,
      max_price      |-> None,
      max_price_time |-> None,
      min_price      |-> None,
      min_price_time |-> None,
      result         |-> NoResult,
      data_points    |-> Len(frame),
      current_price  |-> frame[Len(frame)].close,
      current_time   |-> frame[Len(frame)].ts,
      duration       |-> None,
      pct_change     |-> None ]

InSeq(x, s) == \E k \in 1..Len(s) : s[k] = x

\* lines 292-298
UpdateMaxMin(res, current_price, current_time) ==
    LET r1 == IF IsNone(res.max_price) \/ current_price > Val(res.max_price)
              THEN [res EXCEPT !.max_price = Some(current_price),
                               !.max_price_time = Some(current_time)]
              ELSE res
    IN  IF IsNone(r1.min_price) \/ current_price < Val(r1.min_price)
        THEN [r1 EXCEPT !.min_price = Some(current_price),
                        !.min_price_time = Some(current_time)]
        ELSE r1

\* lines 316-319: the for loop over enumerate(take_profits), from index j on
RECURSIVE CheckTakeProfits(_, _, _, _)
CheckTakeProfits(res, j, current_price, current_time) ==
    IF j >= Len(res.take_profits) THEN res
    ELSE LET tp  == res.take_profits[j + 1]
             hit == /\ ~InSeq(j, res.tp_hit)
                    /\ tp_condition(res.direction, current_price, tp)
             r1  == IF hit
                    THEN [res EXCEPT !.tp_hit = Append(@, j),
                                     !.tp_hit_time = (j :> current_time) @@ @]
                    ELSE res
         IN  CheckTakeProfits(r1, j + 1, current_price, current_time)

\* LoopBody with the take-profit test ahead of the stop-loss test
LoopBody_TpFirst(res, current_price, current_time) ==
    LET r1 == UpdateMaxMin(res, current_price, current_time)
        r2 == CheckTakeProfits(r1, 0, current_price, current_time)
    IN  IF sl_condition(r2.direction, current_price, r2.stop_loss)
        THEN [res |-> [r2 EXCEPT !.sl_hit = TRUE,
                                 !.sl_hit_time = Some(current_time),
                                 !.result = [kind |-> "SL hit", k |-> 0, total |-> 0]],
              brk |-> TRUE]
        ELSE IF Len(r2.tp_hit) = Len(r2.take_profits)
             THEN [res |-> [r2 EXCEPT !.result =
                              [kind |-> "All TPs hit", k |-> 0, total |-> 0]],
                   brk |-> TRUE]
             ELSE [res |-> r2, brk |-> FALSE]

\* LoopBody without the break of line 324
LoopBody_NoAllTpBreak(res, current_price, current_time) ==
    LET r1 == UpdateMaxMin(res, current_price, current_time)
    IN  IF sl_condition(r1.direction, current_price, r1.stop_loss)
        THEN [res |-> [r1 EXCEPT !.sl_hit = TRUE,
                                 !.sl_hit_time = Some(current_time),
                                 !.result = [kind |-> "SL hit", k |-> 0, total |-> 0]],
              brk |-> TRUE]
        ELSE LET r2 == CheckTakeProfits(r1, 0, current_price, current_time)
             IN  IF Len(r2.tp_hit) = Len(r2.take_profits)
                 THEN [res |-> [r2 EXCEPT !.result =
                                  [kind |-> "All TPs hit", k |-> 0, total |-> 0]],
                       brk |-> FALSE]
                 ELSE [res |-> r2, brk |-> FALSE]

\* LoopBody that tests the stop-loss before it updates max_price/min_price
LoopBody_StopBeforeMaxMin(res, current_price, current_time) ==
    IF sl_condition(res.direction, current_price, res.stop_loss)
    THEN [res |-> [res EXCEPT !.sl_hit = TRUE,
                              !.sl_hit_time = Some(current_time),
                              !.result = [kind |-> "SL hit", k |-> 0, total |-> 0]],
          brk |-> TRUE]
    ELSE LET r1 == UpdateMaxMin(res, current_price, current_time)
             r2 == CheckTakeProfits(r1, 0, current_price, current_time)
         IN  IF Len(r2.tp_hit) = Len(r2.take_profits)
             THEN [res |-> [r2 EXCEPT !.result =
                              [kind |-> "All TPs hit", k |-> 0, total |-> 0]],
                   brk |-> TRUE]
             ELSE [res |-> r2, brk |-> FALSE]

\* lines 289-324: one iteration of the walk; brk says whether it ends in a break
LoopBody(res, current_price, current_time) ==
    LET r1 == UpdateMaxMin(res, current_price, current_time)
    IN  IF sl_condition(r1.direction, current_price, r1.stop_loss)
        THEN [res |-> [r1 EXCEPT !.sl_hit = TRUE,
                                 !.sl_hit_time = Some(current_time),
                                 !.result = [kind |-> "SL hit", k |-> 0, total |-> 0]],
              brk |-> TRUE]
        ELSE LET r2 == IF ~r1.sl_hit
                       THEN CheckTakeProfits(r1, 0, current_price, current_time)
                       ELSE r1
             IN  IF ~r1.sl_hit /\ Len(r2.tp_hit) = Len(r2.take_profits)
                 THEN [res |-> [r2 EXCEPT !.result =
                                  [kind |-> "All TPs hit", k |-> 0, total |-> 0]],
                       brk |-> TRUE]
                 ELSE [res |-> r2, brk |-> FALSE]

\* FinalResult without the partial branch of lines 329-330
FinalResult_NoPartial(res) ==
    IF res.result.kind # "None" THEN res.result
    ELSE IF res.sl_hit THEN [kind |-> "SL hit", k |-> 0, total |-> 0]
    ELSE [kind |-> "No targets hit", k |-> 0, total |-> 0]

\* lines 326-332
FinalResult(res) ==
    IF res.result.kind # "None" THEN res.result
    ELSE IF res.sl_hit THEN [kind |-> "SL hit", k |-> 0, total |-> 0]
    ELSE IF res.tp_hit # <<>>
         THEN [kind |-> "Partial TP hit", k |-> Len(res.tp_hit),
               total |-> Len(res.take_profits)]
    ELSE [kind |-> "No targets hit", k |-> 0, total |-> 0]

\* lines 335-337: the key read for the exit time, as a 0-based take-profit
\* index (tp{n}_hit_time is the key of index n - 1)
ExitKey(res) == Len(res.tp_hit) - 1

\* ExitTime that runs to the final bar unless the stop-loss was hit
ExitTime_FinalBar(res, frame) ==
    IF res.sl_hit THEN res.sl_hit_time ELSE Some(frame[Len(frame)].ts)

\* lines 335-337: None stands for the KeyError of a missing tp{n}_hit_time
ExitTime(res, frame) ==
    IF res.sl_hit THEN res.sl_hit_time
    ELSE IF res.tp_hit # <<>>
         THEN IF ExitKey(res) \in DOMAIN res.tp_hit_time
              THEN Some(res.tp_hit_time[ExitKey(res)])
              ELSE None
    ELSE Some(frame[Len(frame)].ts)

\* PctChange with the formula of buy for both directions
PctChange_BuyOnly(res) ==
    [num |-> (res.current_price - res.entry_price) * 100, den |-> res.entry_price]

\* lines 341-344, as the fraction num/den
PctChange(res) ==
    IF res.direction = "buy"
    THEN [num |-> (res.current_price - res.entry_price) * 100, den |-> res.entry_price]
    ELSE [num |-> (res.entry_price - res.current_price) * 100, den |-> res.entry_price]

----------------------------------------------------------------------------
(* The inputs of test_signal *)

\* The frames fetch_historical_data can return: at least one row, sorted by
\* timestamp (line 211), hourly bars from hour 0 on.  A timestamp is repeated
\* where two pages reported the same bar with different values (line 209
\* drops a row only when it equals another in every column); the frames
\* drawn here repeat at most one timestamp.
RECURSIVE SumTo(_, _)
SumTo(f, k) == IF k = 0 THEN 0 ELSE f[k] + SumTo(f, k - 1)

FramesOfLen(n) ==
    { [k \in 1..n |-> [ts |-> SumTo(step, k), close |-> c[k]]] :
        c \in [1..n -> Prices],
        step \in {st \in [1..n -> {0, 1}] :
                    /\ st[1] = 0
                    /\ Cardinality({k \in 2..n : st[k] = 0}) <= 1} }

Frames == UNION {FramesOfLen(n) : n \in 1..MaxBars}

\* fetch_historical_data either raises (line 207) or returns a frame
Providers ==
    {[raises |-> TRUE, frame |-> <<>>]} \cup
    {[raises |-> FALSE, frame |-> f] : f \in Frames}

TakeProfitLists ==
    {<<a>> : a \in Prices} \cup {<<a, b>> : a \in Prices, b \in Prices}

\* The dicts parse_signal returns (lines 55-62)
Signals ==
    [ pair         : {"BTC/USDT"},
      direction    : {"buy", "sell"},
      entry        : {2, 3},
      stop_loss    : Prices,
      take_profits : TakeProfitLists,
      signal_time  : SignalTimes ]

\* The signal of the help text (line 361) and the bars after its entry bar
SignalA ==
    [ pair |-> "BTC/USDT", direction |-> "buy", entry |-> 35000,
      stop_loss |-> 34500, take_profits |-> <<35500>>, signal_time |-> 0 ]

SignalD ==
    [ pair |-> "ETH/USDT", direction |-> "sell", entry |-> 2000,
      stop_loss |-> 2050, take_profits |-> <<1950, 1900>>, signal_time |-> 0 ]

\* The signal of line 363 with its levels in another order
SignalE ==
    [ pair |-> "SOL/USDT", direction |-> "buy", entry |-> 120,
      stop_loss |-> 115, take_profits |-> <<135, 125, 130>>, signal_time |-> 0 ]

\* An hourly frame whose first row is the entry bar
FrameOf(entry_close, closes) ==
    [k \in 1..(Len(closes) + 1) |->
        [ts |-> k - 1, close |-> IF k = 1 THEN entry_close ELSE closes[k - 1]]]

ScenarioB == [raises |-> FALSE, frame |-> FrameOf(35000, <<35100, 35600, 34900>>)]

ScenarioC == [raises |-> FALSE, frame |-> FrameOf(35000, <<34800, 34400>>)]

ScenarioD == [raises |-> FALSE, frame |-> FrameOf(2000, <<1980, 1940, 2060>>)]

ScenarioE == [raises |-> FALSE, frame |-> FrameOf(120, <<126, 131, 136>>)]

Inputs ==
    (Signals \X Providers) \cup
    {<<SignalA, ScenarioB>>, <<SignalA, ScenarioC>>, <<SignalD, ScenarioD>>,
     <<SignalE, ScenarioE>>}

NoResults == <<>>

Init ==
    /\ pc = "start"
    /\ \E inp \in Inputs : signal = inp[1] /\ provider = inp[2]
    /\ fetch_calls = 0
    /\ data = <<>>
    /\ i = 0
    /\ results = NoResults
    /\ error = ""
    /\ signal_text = <<>> /\ utc_now = <<>> /\ parsed = <<>>
    /\ all_ohlcv = <<>> /\ fetch_position = 0 /\ attempts = 0 /\ full_df = <<>>

\* Raise that swallows the exception and returns what there is
Raise_Swallow(msg) ==
    /\ pc' = "returned"
    /\ error' = msg
    /\ UNCHANGED <<signal, provider>>

\* line 349: every exception leaves test_signal as one ValueError
Raise(msg) ==
    /\ pc' = "raised"
    /\ error' = msg
    /\ UNCHANGED <<signal, provider>>

\* lines 223-285: up to the start of the walk.  now is datetime.now at the
\* call: parse_signal returned the signal at a time >= signal_time (line 52).
TestSignalStart ==
    /\ pc = "start"
    /\ UNCHANGED <<parseVars, fetchVars>>
    /\ \E now \in {t \in 0..MaxBars : t >= signal.signal_time} :
         IF signal.signal_time > now
         THEN Raise("Signal time is in the future")
              /\ UNCHANGED <<fetch_calls, data, i, results>>
         ELSE /\ fetch_calls' = fetch_calls + 1
              /\ IF provider.raises
                 THEN Raise("No historical data available")
                      /\ UNCHANGED <<data, i, results>>
                 ELSE LET filtered  == FilterFrom(provider.frame, signal.signal_time)
                          entry_idx == EntryIdx(filtered, signal.signal_time)
                          loc       == GetLoc(filtered, Val(entry_idx))
                      IN  /\ data' = filtered
                          /\ IF Len(filtered) = 0
                             THEN Raise("No data available after signal time")
                                  /\ UNCHANGED <<i, results>>
                             ELSE IF IsNone(entry_idx)
                             THEN Raise("Could not find suitable entry point")
                                  /\ UNCHANGED <<i, results>>
                             ELSE IF loc.kind # "int"
                             THEN Raise("TypeError")   \* slice + 1, line 288
                                  /\ UNCHANGED <<i, results>>
                             ELSE /\ pc' = "walk"
                                  /\ i' = loc.pos
                                  /\ results' = InitialResults(signal, filtered,
                                        Val(entry_idx), SortTakeProfits(signal))
                                  /\ UNCHANGED <<signal, provider, error>>

\* lines 288-324: the next iteration of the for loop; i is the last index
\* taken from range(entry_point + 1, len(prices)), entry_point before the first
WalkStep ==
    /\ pc = "walk"
    /\ i + 1 < Len(data)
    /\ LET row == data[i + 2]     \* prices.iloc[i + 1], data.index[i + 1]
           out == LoopBody(results, row.close, row.ts)
       IN  /\ results' = out.res
           /\ i' = i + 1
           /\ pc' = IF out.brk THEN "finish" ELSE "walk"
    /\ UNCHANGED <<signal, provider, fetch_calls, data, error, parseVars, fetchVars>>

\* line 288: the range is exhausted
WalkExhausted ==
    /\ pc = "walk"
    /\ i + 1 >= Len(data)
    /\ pc' = "finish"
    /\ UNCHANGED <<signal, provider, fetch_calls, data, i, results, error, parseVars, fetchVars>>

\* lines 326-346
Finish ==
    /\ pc = "finish"
    /\ UNCHANGED <<parseVars, fetchVars>>
    /\ LET r1        == [results EXCEPT !.result = FinalResult(results)]
           exit_time == ExitTime(r1, data)
       IN  IF IsNone(exit_time)
           THEN Raise("KeyError") /\ UNCHANGED <<fetch_calls, data, i, results>>
           ELSE /\ results' = [r1 EXCEPT
                                 !.duration = Some(Val(exit_time) - r1.entry_time),
                                 !.pct_change = Some(PctChange(r1))]
                /\ pc' = "returned"
                /\ UNCHANGED <<signal, provider, fetch_calls, data, i, error>>

Next ==
    \/ TestSignalStart
    \/ WalkStep
    \/ WalkExhausted
    \/ Finish

Spec == Init /\ [][Next]_vars

----------------------------------------------------------------------------
(* parse_signal as a specification *)

\* The ways the texts write the pair
PairClauses ==
    {
      <<Pair(<<"B", "T", "C", "/", "U", "S", "D", "T">>)>>,   \* BTC/USDT
      <<Pair(<<"e", "t", "h", "/", "u", "s", "d", "t">>)>>,   \* eth/usdt
      <<Pair(<<"B", "T", "/", "U", "S", "D", "T">>)>>,   \* BT/USDT
      <<>> }   \* no pair

\* ... the direction and the entry price
DirectionClauses ==
    {
      <<Kw("buy"), At, Num(<<"3", "5", "0", "0", "0", ",">>)>>,   \* Buy at 35000,
      <<Kw("sell"), At, Num(<<"2", "0", "0", "0", ",">>)>>,   \* Sell at 2000,
      <<Kw("buy"), At, Num(<<"3", "5", ",", "0", "0", "0", ".", "5", "0">>)>>,   \* Buy at 35,000.50
      <<Kw("long"), Num(<<"1", "2", "0", ",">>)>>,   \* long 120,
      <<Kw("long"), At, Num(<<"1", "2", "0", ",">>)>>,   \* long at 120,
      <<Num(<<"3", "5", "0", "0", "0">>), Kw("buy")>>,   \* 35000 buy
      <<Kw("buy"), At, Num(<<"1", ".", "2", ".", "3">>), Kw("long"), Num(<<"1", "0", "0">>)>>,   \* Buy at 1.2.3 long 100
      <<Kw("short"), Num(<<"1", ".", ".", "5">>), Num(<<"2", "0", "0", "0">>), Kw("sell")>>,   \* short 1..5 2000 sell
      <<>> }   \* no direction

\* ... the stop-loss
StopLossClauses ==
    {
      <<Kw("sl"), At, Num(<<"3", "4", "5", "0", "0", ",">>)>>,   \* SL at 34500,
      <<Kw("stop loss"), Num(<<"2", "0", "5", "0", ",">>)>>,   \* Stop Loss 2050,
      <<Kw("sl"), Num(<<"1", "1", "5", ",">>)>>,   \* SL 115,
      <<Kw("stoploss"), At, Num(<<"3", "4", "5", "0", "0">>)>>,   \* stoploss at 34500
      <<Kw("sl"), At, Num(<<"1", ".", "2", ".", "3">>), Kw("stoploss"), Num(<<"1", "1", "5">>)>>,   \* SL at 1.2.3 stoploss 115
      <<>> }   \* no stop-loss

\* ... the take-profit levels
TakeProfitClauses ==
    {
      <<Tp(<<"1">>, FALSE, FALSE), At, Num(<<"3", "5", "5", "0", "0", ",">>)>>,   \* TP1 at 35500,
      <<Tp(<<"1">>, FALSE, FALSE), Num(<<"1", "9", "5", "0">>), Tp(<<"2">>, FALSE, FALSE), Num(<<"1", "9", "0", "0", ",">>)>>,   \* TP1 1950 TP2 1900,
      <<Tp(<<>>, TRUE, TRUE), Num(<<"1", "2", "5", ",">>), Num(<<"1", "3", "0", ",">>), Num(<<"1", "3", "5", ",">>)>>,   \* TPs: 125, 130, 135,
      <<Tp(<<>>, TRUE, TRUE), Num(<<"1", "2", "5", ",", "1", "3", "0", ",", "1", "3", "5">>)>>,   \* TPs: 125,130,135
      <<Tp(<<>>, TRUE, TRUE), Num(<<"1", "3", "5">>), Num(<<",">>), Num(<<"1", "2", "5">>), Num(<<",">>), Num(<<"1", "3", "0">>)>>,   \* TPs: 135 , 125 , 130
      <<Tp(<<"1">>, FALSE, FALSE), At, Num(<<"1", ".", "2", ".", "3">>), Tp(<<"2">>, FALSE, FALSE), Num(<<"1", "3", "0">>)>>,   \* TP1 at 1.2.3 TP2 130
      <<Tp(<<"1">>, FALSE, TRUE), Num(<<"3", "5", "5", "0", "0">>)>>,   \* TP1: 35500
      <<>> }   \* no take-profit

\* ... the time
TimeClauses ==
    {
      <<TimePrefix, Stamp("iso", 2023, 11, 15, "hm", 8, 0, 0)>>,   \* Time: 2023-11-15 08:00
      <<TimePrefix, Stamp("iso", 2023, 11, 15, "hms", 8, 0, 0)>>,   \* Time: 2023-11-15 08:00:00
      <<TimePrefix, Stamp("iso", 2023, 12, 1, "none", 0, 0, 0)>>,   \* Time: 2023-12-01
      <<TimePrefix, Stamp("dmy", 2024, 10, 1, "hm", 16, 30, 0)>>,   \* Time: 01-10-2024 16:30
      <<Stamp("slash", 2023, 11, 15, "hms", 8, 0, 30)>>,   \* 2023/11/15 08:00:30
      <<Stamp("slash", 2023, 11, 15, "hm", 9, 45, 0)>>,   \* 2023/11/15 09:45
      <<TimePrefix, Stamp("dmon", 2023, 11, 15, "hms", 8, 0, 0)>>,   \* Time: 15-Nov-2023 08:00:00
      <<TimePrefix, Stamp("us", 2023, 11, 15, "hm", 8, 30, 0)>>,   \* Time: 11/15/2023 08:30
      <<Stamp("dot", 2023, 11, 15, "hms", 23, 59, 59)>>,   \* 15.11.2023 23:59:59
      <<TimePrefix, Stamp("iso", 2023, 13, 1, "hms", 8, 0, 0)>>,   \* Time: 2023-13-01 08:00:00
      <<TimePrefix, Stamp("iso", 2030, 1, 1, "hms", 0, 0, 0)>>,   \* Time: 2030-01-01 00:00:00
      <<>> }   \* no time

\* The texts: one clause of each kind, in the order of the examples of
\* lines 361-363
Texts ==
    { p \o d \o sl \o tp \o t :
        p \in PairClauses, d \in DirectionClauses, sl \in StopLossClauses,
        tp \in TakeProfitClauses, t \in TimeClauses }

\* The times at which parse_signal is called
Clocks == {DateTime(2023, 11, 15, 8, 0, 0), DateTime(2024, 6, 1, 12, 0, 0)}

NoSignal == <<>>

InitParse ==
    /\ pc = "parse"
    /\ signal_text \in Texts
    /\ utc_now \in Clocks
    /\ parsed = NoSignal
    /\ error = ""
    /\ signal = <<>> /\ provider = <<>> /\ fetch_calls = 0
    /\ data = <<>> /\ i = 0 /\ results = NoResults
    /\ all_ohlcv = <<>> /\ fetch_position = 0 /\ attempts = 0 /\ full_df = <<>>

\* lines 29-64: the call parse_signal(signal_text)
ParseSignal ==
    /\ pc = "parse"
    /\ LET r == parse_signal(signal_text, utc_now)
       IN  IF r.ok
           THEN pc' = "parsed" /\ parsed' = r.val /\ error' = ""
           ELSE pc' = "parse_error" /\ parsed' = NoSignal /\ error' = r.err
    /\ UNCHANGED <<signal_text, utc_now, evalVars, fetchVars>>

NextParse == ParseSignal

SpecParse == InitParse /\ [][NextParse]_vars

----------------------------------------------------------------------------
(* fetch_historical_data as a specification *)

\* line 164
max_attempts == 5

\* line 163: start_time, the hour 0 of the fetch
StartTime == 0

\* The pages exchange.fetch_ohlcv(pair, timeframe, since, limit) can answer
\* with: consecutive hourly bars, the first one at since or later, the last
\* one possibly after end_time; two answers for the same hour may
\* differ in the close they report
Pages(since) ==
    { [k \in 1..n |-> [ts |-> a + k - 1, close |-> c[k]]] :
        n \in 1..MaxPage, a \in since..(EndTime + 1), c \in [1..MaxPage -> {1, 2}] }

\* line 182: df[df['timestamp'] <= end_time]
UpTo(frame, end_time) == SelectSeq(frame, LAMBDA row : row.ts <= end_time)

\* pd.concat(all_ohlcv)
RECURSIVE Concat(_)
Concat(frames) ==
    IF frames = <<>> THEN <<>> ELSE Head(frames) \o Concat(Tail(frames))

\* line 209: drop_duplicates keeps the first of the rows equal in every column
DropDuplicates(frame) ==
    LET first == {k \in 1..Len(frame) : \A j \in 1..(k - 1) : frame[j] # frame[k]}
    IN  [n \in 1..Cardinality(first) |->
            frame[CHOOSE k \in first : Cardinality({j \in first : j <= k}) = n]]

\* line 211: sort_index, rows of equal timestamp in their order of arrival
SortIndex(frame) ==
    LET place(k) == Cardinality({j \in 1..Len(frame) :
                        \/ frame[j].ts < frame[k].ts
                        \/ frame[j].ts = frame[k].ts /\ j <= k})
    IN  [n \in 1..Len(frame) |-> frame[CHOOSE k \in 1..Len(frame) : place(k) = n]]

InitFetch ==
    /\ pc = "loop"
    /\ all_ohlcv = <<>>
    /\ fetch_position = StartTime
    /\ attempts = 0
    /\ full_df = <<>>
    /\ error = ""
    /\ signal = <<>> /\ provider = <<>> /\ fetch_calls = 0
    /\ data = <<>> /\ i = 0 /\ results = NoResults
    /\ signal_text = <<>> /\ utc_now = <<>> /\ parsed = <<>>

\* line 171
LoopGuard == fetch_position < EndTime /\ attempts < max_attempts

\* lines 172-199: the exchange answers with a page that has rows
FetchPage ==
    /\ pc = "loop"
    /\ LoopGuard
    /\ \E ohlcv \in Pages(fetch_position) :
         LET df             == UpTo(ohlcv, EndTime)
             last_timestamp == df[Len(df)].ts
         IN  IF Len(df) > 0
             THEN /\ all_ohlcv' = Append(all_ohlcv, df)
                  /\ IF last_timestamp <= fetch_position
                     THEN /\ pc' = "after_loop"             \* break, line 188
                          /\ UNCHANGED <<fetch_position, attempts>>
                     ELSE /\ fetch_position' = last_timestamp
                          /\ attempts' = 0
                          /\ pc' = "loop"
             ELSE /\ attempts' = attempts + 1
                  /\ UNCHANGED <<pc, all_ohlcv, fetch_position>>
    /\ UNCHANGED <<full_df, error, evalVars, parseVars>>

\* lines 177-178: the exchange answers with no rows
FetchNothing ==
    /\ pc = "loop"
    /\ LoopGuard
    /\ pc' = "after_loop"
    /\ UNCHANGED <<all_ohlcv, fetch_position, attempts, full_df, error,
                   evalVars, parseVars>>

\* FetchError with a handler that resets the counter
FetchError_Reset ==
    /\ pc = "loop"
    /\ LoopGuard
    /\ attempts' = 0
    /\ UNCHANGED <<pc, all_ohlcv, fetch_position, full_df, error,
                   evalVars, parseVars>>

\* lines 201-204: the request raises
FetchError ==
    /\ pc = "loop"
    /\ LoopGuard
    /\ attempts' = attempts + 1
    /\ UNCHANGED <<pc, all_ohlcv, fetch_position, full_df, error,
                   evalVars, parseVars>>

\* line 171: the loop condition is false
LoopEnd ==
    /\ pc = "loop"
    /\ ~LoopGuard
    /\ pc' = "after_loop"
    /\ UNCHANGED <<all_ohlcv, fetch_position, attempts, full_df, error,
                   evalVars, parseVars>>

\* lines 206-218
FetchFinish ==
    /\ pc = "after_loop"
    /\ IF all_ohlcv = <<>>
       THEN /\ pc' = "fetch_raised"
            /\ error' = "No historical data available"
            /\ UNCHANGED full_df
       ELSE /\ \E concat \in {Concat(all_ohlcv)} :            \* line 209
              \E deduped \in {DropDuplicates(concat)} :       \* line 209
                 full_df' = SortIndex(deduped)               \* lines 210-211
            /\ pc' = "fetch_returned"
            /\ UNCHANGED error
    /\ UNCHANGED <<all_ohlcv, fetch_position, attempts, evalVars, parseVars>>

NextFetch ==
    \/ FetchPage
    \/ FetchNothing
    \/ FetchError
    \/ LoopEnd
    \/ FetchFinish

SpecFetch == InitFetch /\ [][NextFetch]_vars

\* The call runs on: every request returns or raises, every sleep ends
SpecFetchLive == SpecFetch /\ WF_vars(NextFetch)

----------------------------------------------------------------------------
(* Properties of test_signal, checked under Spec *)

HasResults == results # NoResults

NumLevels == Len(results.take_profits)

Levels == 0..(NumLevels - 1)

HitSet == {results.tp_hit[k] : k \in 1..Len(results.tp_hit)}

AllHit == HitSet = Levels

MaxOf(S) == CHOOSE x \in S : \A y \in S : y <= x

MinOf(S) == CHOOSE x \in S : \A y \in S : x <= y

\* Row k of data (1-based; row 1 is the entry bar) satisfies the condition
\* of take-profit index j / of the stop-loss
TpAt(k, j) == tp_condition(signal.direction, data[k].close, results.take_profits[j + 1])

SlAt(k) == sl_condition(signal.direction, data[k].close, signal.stop_loss)

\* The row the walk examined last: row i + 1, for the 0-based index i
LastRow == i + 1

\* C1: a stop-loss hit ends the crediting of take-profits: the step that
\* records the stop-loss hit and every later step leave the take-profit hits
\* as they were, and a bar that satisfies the stop-loss condition records
\* the stop-loss hit whatever take-profit conditions it also satisfies.
C1_StopLossPrecedence ==
    [][ /\ (HasResults /\ results' # NoResults /\ results'.sl_hit)
            => /\ results'.tp_hit = results.tp_hit
               /\ results'.tp_hit_time = results.tp_hit_time
        /\ (pc = "walk" /\ i' = i + 1 /\ SlAt(i + 2))
            => /\ results'.sl_hit
               /\ results'.sl_hit_time = Some(data[i + 2].ts)
               /\ results'.tp_hit = results.tp_hit ]_vars

\* the stop-loss bar also satisfies the condition of an unhit take-profit
C1_Witness ==
    /\ HasResults
    /\ results.sl_hit
    /\ \E j \in Levels : j \notin HitSet /\ TpAt(LastRow, j)

\* C2: once every take-profit level is hit the walk is over with outcome
\* ALL_TP_HIT: the last bar examined is the first one on which all levels
\* are hit, no stop-loss hit is recorded, and max_price/min_price cover the
\* bars up to that one only.  Scenario B ends on its second bar.
C2_AllTpTerminates ==
    /\ (HasResults /\ AllHit) =>
          /\ pc \in {"finish", "returned"}
          /\ results.result.kind = "All TPs hit"
          /\ ~results.sl_hit
          /\ LastRow >= 2
          /\ \E j \in Levels : \A k \in 2..(LastRow - 1) : ~TpAt(k, j)
          /\ results.max_price = Some(MaxOf({data[k].close : k \in 2..LastRow}))
          /\ results.min_price = Some(MinOf({data[k].close : k \in 2..LastRow}))
    /\ (pc = "returned" /\ signal = SignalA /\ provider = ScenarioB) =>
          /\ results.tp_hit = <<0>>
          /\ results.tp_hit_time[0] = 2
          /\ results.result.kind = "All TPs hit"
          /\ i = 2
          /\ ~results.sl_hit
          /\ results.max_price = Some(35600)
          /\ results.min_price = Some(35100)

\* all levels hit, and a bar after the last one examined meets the stop-loss
C2_Witness ==
    /\ pc = "returned"
    /\ AllHit
    /\ \E k \in (LastRow + 1)..Len(data) : SlAt(k)

\* The walk took every bar after the entry bar
Exhausted == LastRow = Len(data)

\* C3: the outcome of a completed evaluation is one of the four values and
\* follows from the final hit state.
C3_OutcomeFromHits ==
    /\ pc = "returned" =>
          /\ results.result.kind \in
                {"SL hit", "All TPs hit", "Partial TP hit", "No targets hit"}
          /\ (results.result.kind = "SL hit") <=> results.sl_hit
          /\ (results.result.kind = "All TPs hit") <=> (AllHit /\ ~results.sl_hit)
          /\ (results.result.kind = "Partial TP hit") <=>
                /\ Exhausted
                /\ ~results.sl_hit
                /\ 0 < Cardinality(HitSet)
                /\ Cardinality(HitSet) < NumLevels
          /\ (results.result.kind = "Partial TP hit") =>
                /\ results.result.k = Cardinality(HitSet)
                /\ results.result.total = NumLevels
          /\ (results.result.kind = "No targets hit") <=>
                (Exhausted /\ ~results.sl_hit /\ HitSet = {})
    /\ HasResults => ~(results.sl_hit /\ AllHit)
    /\ (pc = "returned" /\ signal = SignalD /\ provider = ScenarioD) =>
          /\ results.tp_hit = <<0>>
          /\ results.tp_hit_time[0] = 2
          /\ results.sl_hit
          /\ results.sl_hit_time = Some(3)
          /\ results.result.kind = "SL hit"

\* a stop-loss hit after take-profits were hit on earlier bars
C3_Witness ==
    /\ pc = "returned"
    /\ results.sl_hit
    /\ HitSet # {}
    /\ \E j \in HitSet : results.tp_hit_time[j] < Val(results.sl_hit_time)

\* C5: the exit time is the stop-loss hit time, else the latest take-profit
\* hit time, else the timestamp of the final bar; duration is exit - entry;
\* the key read for the last take-profit hit time always exists.
C5_ExitTime ==
    /\ error # "KeyError"
    /\ (pc = "finish" /\ ~results.sl_hit /\ HitSet # {})
          => (ExitKey(results) \in DOMAIN results.tp_hit_time)
    /\ pc = "returned" =>
          LET exit == IF results.sl_hit THEN Val(results.sl_hit_time)
                      ELSE IF HitSet # {}
                           THEN MaxOf({results.tp_hit_time[j] : j \in HitSet})
                      ELSE data[Len(data)].ts
          IN  results.duration = Some(exit - results.entry_time)

\* two levels hit on different bars, no stop-loss hit
C5_Witness ==
    /\ pc = "returned"
    /\ ~results.sl_hit
    /\ Cardinality(HitSet) = 2
    /\ results.tp_hit_time[0] < results.tp_hit_time[1]

\* The first row on which take-profit index j is satisfied
FirstTpRow(j) == MinOf({k \in 2..LastRow : TpAt(k, j)})

\* C6 as stated: duration runs to the bar that terminated the walk, the last
\* available bar whenever the walk ran through all bars.
C6_DurationToTerminatingBar ==
    pc = "returned" =>
        results.duration = Some(data[LastRow].ts - results.entry_time)

\* C6 amended: duration runs to the stop-loss bar, or to the bar on which the
\* last take-profit was hit when all were hit, or, when the walk ran through
\* all bars, to the bar of the most recent take-profit hit if some level was
\* hit and to the last available bar if none was.
C6_DurationAmended ==
    pc = "returned" =>
        LET bar == IF results.sl_hit \/ AllHit THEN LastRow
                   ELSE IF HitSet # {} THEN MaxOf({FirstTpRow(j) : j \in HitSet})
                   ELSE Len(data)
        IN  results.duration = Some(data[bar].ts - results.entry_time)

\* some but not all levels hit, and the last hit was before the last bar
C6_Witness ==
    /\ pc = "returned"
    /\ results.result.kind = "Partial TP hit"
    /\ MaxOf({FirstTpRow(j) : j \in HitSet}) < Len(data)
    /\ data[MaxOf({FirstTpRow(j) : j \in HitSet})].ts < data[Len(data)].ts

\* No row of the provider's frame is at or after the signal time
NoBarAfterSignal ==
    \A k \in 1..Len(provider.frame) : provider.frame[k].ts < signal.signal_time

\* C9: test_signal returns a complete Result or fails with the evaluation
\* error; it fails when the provider fails or yields no bar at or after the
\* signal time; the provider is called exactly once per evaluation.
C9_CompleteOrError ==
    /\ fetch_calls <= 1
    /\ pc \in {"walk", "finish", "returned", "raised"} => fetch_calls = 1
    /\ pc = "returned" =>
          /\ error = ""
          /\ results.result.kind # "None"
          /\ ~IsNone(results.duration)
          /\ ~IsNone(results.pct_change)
          /\ results.sl_hit <=> ~IsNone(results.sl_hit_time)
          /\ DOMAIN results.tp_hit_time = HitSet
    /\ pc = "raised" => error # ""
    /\ (provider.raises \/ NoBarAfterSignal) => pc \in {"start", "raised"}

\* the provider failed, once, and the evaluation failed
C9_Witness ==
    /\ pc = "raised"
    /\ provider.raises
    /\ fetch_calls = 1

----------------------------------------------------------------------------
(* Properties of parse_signal, checked under SpecParse *)

ParseDone == pc \in {"parsed", "parse_error"}

\* the first pattern of time_patterns that matches the text, 0 when none does
FirstTimePattern(text) ==
    LET matching == {n \in 1..Len(time_patterns) :
                        TimeMatches(text, time_patterns[n]) # {}}
    IN  IF matching = {} THEN 0 ELSE MinOfSet(matching)

\* the text the first matching pattern matches
FirstStamp(text) ==
    text[MinOfSet(TimeMatches(text, time_patterns[FirstTimePattern(text)]))]

\* the first matching pattern asks for a clock and the text it matches is a
\* valid date with a valid HH:MM and no seconds
HourMinuteOnly(text) ==
    /\ FirstTimePattern(text) # 0
    /\ time_patterns[FirstTimePattern(text)].clock
    /\ LET stamp == FirstStamp(text)
       IN  /\ stamp.clock = "hm"
           /\ stamp.y >= 1 /\ stamp.mo \in 1..12
           /\ stamp.d \in 1..DaysIn(stamp.y, stamp.mo)
           /\ stamp.h <= 23 /\ stamp.mi <= 59

\* C4: a timestamp written with hours and minutes but no seconds, as in
\* "Time: 2023-11-15 08:00", is read by a retry of the matching pattern
\* without the seconds, so the parsed time keeps the hour and the minute
\* (08:00:00 of that day) and the time extraction does not fail.
C4_HourMinuteKept ==
    (ParseDone /\ HourMinuteOnly(signal_text)) =>
        LET stamp == FirstStamp(signal_text)
            kept  == DateTime(stamp.y, stamp.mo, stamp.d, stamp.h, stamp.mi, 0)
        IN  /\ extract_time(signal_text) = Ok(kept)
            /\ pc = "parsed" => parsed.signal_time = kept
            /\ error # "Could not find valid time in signal"

\* the five extractions of parse_signal on the text of the state
AllExtracted ==
    /\ extract_pair(signal_text).ok
    /\ extract_direction_and_price(signal_text).ok
    /\ extract_price(signal_text, StopLossKeywords).ok
    /\ extract_take_profits(signal_text).ok
    /\ extract_time(signal_text).ok

NoToken(kind) == \A p \in 1..Len(signal_text) : signal_text[p].k # kind

\* C7: parsing is all-or-nothing. A signal is returned exactly when the
\* pair, the direction with the entry, the stop-loss, the take-profits and
\* the time were all extracted and the time is not in the future, and it
\* then carries all six fields as extracted; in every other case nothing is
\* returned and there is one error, whatever the other extractions found.
C7_AllOrNothing ==
    ParseDone =>
        /\ pc = "parsed" <=>
             /\ AllExtracted
             /\ ~Later(extract_time(signal_text).val, utc_now)
        /\ pc = "parsed" =>
             /\ error = ""
             /\ DOMAIN parsed = {"pair", "direction", "entry", "stop_loss",
                                 "take_profits", "signal_time"}
             /\ parsed.pair = extract_pair(signal_text).val
             /\ parsed.direction \in {"buy", "sell"}
             /\ parsed.direction =
                    extract_direction_and_price(signal_text).val.direction
             /\ parsed.entry = extract_direction_and_price(signal_text).val.price
             /\ parsed.stop_loss = extract_price(signal_text, StopLossKeywords).val
             /\ parsed.stop_loss # None
             /\ parsed.take_profits = extract_take_profits(signal_text).val
             /\ Len(parsed.take_profits) >= 1
             /\ parsed.signal_time = extract_time(signal_text).val
             /\ ~Later(parsed.signal_time, utc_now)
        /\ pc = "parse_error" => parsed = NoSignal /\ error # ""
        /\ (\/ NoToken("pair")
            \/ NoToken("stamp")
            \/ NoToken("tp")
            \/ \A p \in 1..Len(signal_text) :
                 ~IsKw(signal_text, p, {"sl", "stop loss", "stoploss"})
            \/ \A p \in 1..Len(signal_text) :
                 ~IsKw(signal_text, p, {"buy", "sell", "entry", "long", "short"}))
           => pc = "parse_error"

\* four of the five extractions succeed, the stop-loss is missing, and the
\* parse has failed with nothing returned
C7_Witness ==
    /\ pc = "parse_error"
    /\ parsed = NoSignal
    /\ extract_pair(signal_text).ok
    /\ extract_direction_and_price(signal_text).ok
    /\ ~extract_price(signal_text, StopLossKeywords).ok
    /\ extract_take_profits(signal_text).ok
    /\ extract_time(signal_text).ok
    /\ ~Later(extract_time(signal_text).val, utc_now)

WellFormed(chars) == ParseFloat(StripCommas(chars)).ok

\* some rule of the direction cascade matches a well-formed number
DirectionWellFormed(text) ==
    \E rule \in 1..3 :
        /\ DirectionMatches(text, rule) # {}
        /\ WellFormed(DirectionCapture(text, rule).price)

\* some keyword of the stop-loss cascade is followed by a well-formed number
StopLossWellFormed(text) ==
    \E n \in 1..Len(StopLossKeywords) :
        /\ ~IsNone(KeywordCapture(text, StopLossKeywords[n]))
        /\ WellFormed(Val(KeywordCapture(text, StopLossKeywords[n])))

\* some rule of the take-profit cascade matches well-formed numbers only
TakeProfitWellFormed(text) ==
    \/ /\ TpRule1Matches(text) # {}
       /\ \A p \in TpRule1Matches(text) : WellFormed(text[p + 2].s)
    \/ /\ TpRule2Matches(text) # {}
       /\ \A p \in TpRule2Matches(text) : WellFormed(TpRule2Capture(text, p))
    \/ /\ TpRule3Matches(text) # {}
       /\ FloatAll(Split(TpRule3Capture(text, MinOfSet(TpRule3Matches(text))),
                         <<>>)).ok
    \/ /\ ~IsNone(TpRule4Capture(text))
       /\ WellFormed(Val(TpRule4Capture(text)))

\* C8: a capture that is not a well-formed number makes its rule count as
\* not matching, and the cascade goes on to the next rule; so whenever some
\* rule of a cascade matches a well-formed number the extraction succeeds,
\* and a malformed number alone never fails the parse.
C8_MalformedSkipped ==
    ParseDone =>
        /\ DirectionWellFormed(signal_text) =>
               extract_direction_and_price(signal_text).ok
        /\ StopLossWellFormed(signal_text) =>
               extract_price(signal_text, StopLossKeywords).ok
        /\ TakeProfitWellFormed(signal_text) =>
               extract_take_profits(signal_text).ok
        /\ ( /\ DirectionWellFormed(signal_text)
             /\ StopLossWellFormed(signal_text)
             /\ TakeProfitWellFormed(signal_text) )
           => error # "could not convert string to float"

----------------------------------------------------------------------------
(* Properties of fetch_historical_data, checked under SpecFetch *)

\* C10: fetch_historical_data returns the complete frame or fails. When the
\* loop ends because five attempts in a row failed, before the position
\* reached end_time, the call fails; it does not return the pages it had.
C10_CompleteOrFail ==
    (attempts >= max_attempts /\ fetch_position < EndTime) =>
        pc # "fetch_returned"

\* C11: every frame fetch_historical_data returns is sorted ascending by
\* timestamp and has at most one bar per timestamp, also when consecutive
\* pages overlap on a timestamp and report different values for it.
C11_SortedUnique ==
    pc = "fetch_returned" =>
        \A j \in 1..Len(full_df) : \A k \in 1..Len(full_df) :
            j < k => full_df[j].ts < full_df[k].ts

----------------------------------------------------------------------------
(* Further properties of test_signal, checked under Spec *)

\* The number of positions of the list s that hold v
Count(s, v) == Cardinality({k \in 1..Len(s) : s[k] = v})

\* C12: the take-profit list test_signal tests and reports is a permutation
\* of the signal's take_profits, ascending for buy and descending for sell,
\* whatever their order in the text (buy with 135, 125, 130 gives 125, 130,
\* 135); every recorded hit index is a position of this list, and the bar of
\* its hit time satisfies the condition of the level at that position.
C12_SortedPermutation ==
    HasResults =>
        /\ Len(results.take_profits) = Len(signal.take_profits)
        /\ \A k \in 1..NumLevels :
             Count(results.take_profits, results.take_profits[k])
                = Count(signal.take_profits, results.take_profits[k])
        /\ \A j \in 1..NumLevels : \A k \in 1..NumLevels :
             j < k => IF signal.direction = "buy"
                      THEN results.take_profits[j] <= results.take_profits[k]
                      ELSE results.take_profits[j] >= results.take_profits[k]
        /\ HitSet \subseteq Levels
        /\ DOMAIN results.tp_hit_time \subseteq Levels
        /\ \A j \in HitSet :
             \E k \in 2..LastRow :
                /\ data[k].ts = results.tp_hit_time[j]
                /\ TpAt(k, j)
        /\ signal = SignalE => results.take_profits = <<125, 130, 135>>

\* the signal with the levels 135, 125, 130 has them hit one bar after the
\* other, in the sorted order
C12_Witness ==
    /\ pc = "returned"
    /\ signal = SignalE
    /\ results.tp_hit = <<0, 1, 2>>
    /\ results.tp_hit_time = (0 :> 1) @@ (1 :> 2) @@ (2 :> 3)

\* The closes of the bars after the entry bar that the walk has examined
WalkedCloses == {data[k].close : k \in 2..LastRow}

\* C13: max_price and min_price are the maximum and the minimum close over
\* the bars strictly after the entry bar up to and including the bar that
\* ended the walk (the stop-loss bar and the all-TP bar are included, no bar
\* after them is); both are unset exactly when no bar follows the entry bar,
\* and min_price <= max_price whenever they are set.
C13_MaxMinOverWalk ==
    /\ HasResults =>
          /\ IsNone(results.max_price) <=> LastRow = 1
          /\ IsNone(results.min_price) <=> LastRow = 1
          /\ LastRow > 1 =>
                /\ results.max_price = Some(MaxOf(WalkedCloses))
                /\ results.min_price = Some(MinOf(WalkedCloses))
                /\ Val(results.min_price) <= Val(results.max_price)
                /\ \E k \in 2..LastRow :
                      /\ data[k].close = Val(results.max_price)
                      /\ data[k].ts = Val(results.max_price_time)
                /\ \E k \in 2..LastRow :
                      /\ data[k].close = Val(results.min_price)
                      /\ data[k].ts = Val(results.min_price_time)
    /\ pc = "returned" =>
          /\ (results.sl_hit \/ AllHit) => (LastRow > 1 /\ (SlAt(LastRow) \/ AllHit))
          /\ ~(results.sl_hit \/ AllHit) => LastRow = Len(data)
          /\ IsNone(results.max_price) <=> Len(data) = 1
          /\ IsNone(results.min_price) <=> Len(data) = 1

\* the stop-loss bar holds the extreme close of the walk, and a bar after it
\* goes beyond the recorded maximum
C13_Witness ==
    /\ pc = "returned"
    /\ results.sl_hit
    /\ data[LastRow].close \in {Val(results.min_price), Val(results.max_price)}
    /\ \E k \in (LastRow + 1)..Len(data) :
          \/ data[k].close > Val(results.max_price)
          \/ data[k].close < Val(results.min_price)

\* The other direction
Opposite(direction) == IF direction = "buy" THEN "sell" ELSE "buy"

\* C14: percent_change is computed from the close of the last bar of the
\* whole sequence, not of the bar that ended the walk, against the entry
\* price: (close - entry)/entry*100 for buy, (entry - close)/entry*100 for
\* sell; for the same bars and entry the other direction gives the value of
\* opposite sign.
C14_PercentChange ==
    pc = "returned" =>
        LET close == data[Len(data)].close
            entry == signal.entry
            pct   == Val(results.pct_change)
            other == PctChange([results EXCEPT !.direction = Opposite(@)])
        IN  /\ ~IsNone(results.pct_change)
            /\ results.current_price = close
            /\ results.current_time = data[Len(data)].ts
            /\ pct.den = entry
            /\ signal.direction = "buy" => pct.num = (close - entry) * 100
            /\ signal.direction = "sell" => pct.num = (entry - close) * 100
            /\ other.den = pct.den
            /\ other.num = 0 - pct.num

\* the walk ended before the last bar, whose close differs from the close of
\* the bar that ended it and from the entry price
C14_Witness ==
    /\ pc = "returned"
    /\ LastRow < Len(data)
    /\ data[LastRow].close # data[Len(data)].close
    /\ Val(results.pct_change).num # 0
    /\ (data[LastRow].close - signal.entry) * (data[Len(data)].close - signal.entry) < 0

----------------------------------------------------------------------------
(* Further properties of parse_signal, checked under SpecParse *)

\* The number text is one item of a written list "a, b, c": a well-formed
\* number, with or without the comma that separates it from the next item
IsListItem(chars) ==
    LET body == IF chars[Len(chars)] = "," THEN SubSeq(chars, 1, Len(chars) - 1)
                ELSE chars
    IN  /\ body # <<>>
        /\ \A n \in 1..Len(body) : body[n] # ","
        /\ ParseFloat(body).ok

\* The values of the list written from token q on
RECURSIVE ListedFrom(_, _)
ListedFrom(text, q) ==
    IF Has(text, q, "num") /\ IsListItem(text[q].s)
    THEN <<ParseFloat(StripCommas(text[q].s)).val>> \o
         (IF text[q].s[Len(text[q].s)] = "," THEN ListedFrom(text, q + 1) ELSE <<>>)
    ELSE <<>>

TpTokens(text) == {p \in 1..Len(text) : Has(text, p, "tp")}

\* The take-profits of the text are given only as a list "TPs: a, b, ..."
OnlyCommaList(text) ==
    /\ Cardinality(TpTokens(text)) = 1
    /\ \A p \in TpTokens(text) :
          /\ text[p].plural /\ text[p].colon /\ text[p].digits = <<>>
          /\ Len(ListedFrom(text, p + 1)) >= 2

\* C15: a text whose take-profits are given only as a comma-list
\* "TPs: a, b, c" (as in "SOL/USDT long at 120, SL 115, TPs: 125, 130, 135,
\* ...") has its take-profit extraction succeed with the levels a, b, c in
\* the order of the text.
C15_CommaList ==
    (ParseDone /\ OnlyCommaList(signal_text)) =>
        LET listed == ListedFrom(signal_text,
                                 (CHOOSE p \in TpTokens(signal_text) : TRUE) + 1)
        IN  /\ extract_take_profits(signal_text) = Ok(listed)
            /\ pc = "parsed" => parsed.take_profits = listed

\* The levels rule r of the take-profit cascade yields on the text: the
\* numbers of its matches, none when its pattern does not match or a number
\* it captured is malformed
RuleLevels(text, r) ==
    CASE r = 1 ->
           IF TpRule1Matches(text) = {} THEN Fail("no match")
           ELSE LET at == InOrder(TpRule1Matches(text))
                IN  FloatAll([n \in 1..Len(at) |-> StripCommas(text[at[n] + 2].s)])
      [] r = 2 ->
           IF TpRule2Matches(text) = {} THEN Fail("no match")
           ELSE LET at == InOrder(TpRule2Matches(text))
                IN  FloatAll([n \in 1..Len(at) |->
                                 StripCommas(TpRule2Capture(text, at[n]))])
      [] r = 3 ->
           IF TpRule3Matches(text) = {} THEN Fail("no match")
           ELSE FloatAll(Split(TpRule3Capture(text, MinOfSet(TpRule3Matches(text))),
                               <<>>))
      [] r = 4 ->
           IF IsNone(TpRule4Capture(text)) THEN Fail("no match")
           ELSE LET tp == ParseFloat(StripCommas(Val(TpRule4Capture(text))))
                IN  IF tp.ok THEN Ok(<<tp.val>>) ELSE tp

YieldingRules(text) == {r \in 1..4 : RuleLevels(text, r).ok}

\* C16: take-profit extraction tries its four rules in their order and
\* returns the levels of the first rule that yields at least one level,
\* never a combination of rules; with a "TP<digits?> at <number>" occurrence
\* the result is the numbers of those occurrences in text order; the
\* extraction fails only when no rule yields a level.
C16_FirstYieldingRule ==
    ParseDone =>
        LET found == extract_take_profits(signal_text)
            rules == YieldingRules(signal_text)
        IN  /\ found.ok <=> rules # {}
            /\ rules # {} => found = RuleLevels(signal_text, MinOfSet(rules))
            /\ 1 \in rules =>
                  /\ Len(found.val) = Cardinality(TpRule1Matches(signal_text))
                  /\ \A n \in 1..Len(found.val) :
                        found.val[n] = ParseFloat(StripCommas(
                            signal_text[InOrder(TpRule1Matches(signal_text))[n] + 2].s)).val
            /\ (pc = "parsed" /\ rules # {}) =>
                  parsed.take_profits = RuleLevels(signal_text, MinOfSet(rules)).val

----------------------------------------------------------------------------
(* Properties of the entry bar and of the hit set, checked under Spec *)

\* The timestamps of the provider's bars at or after the signal time
BarsFromSignal ==
    {provider.frame[k].ts : k \in
        {n \in 1..Len(provider.frame) : provider.frame[n].ts >= signal.signal_time}}

\* C17: entry_time is the timestamp of the first bar at or after the signal
\* time, and the close of the entry bar is never tested: every recorded
\* stop-loss or take-profit hit time is strictly later than entry_time, also
\* when the close of the entry bar satisfies the stop-loss condition or the
\* condition of a take-profit.
C17_EntryBarNotTested ==
    HasResults =>
        /\ results.entry_time = MinOf(BarsFromSignal)
        /\ results.entry_time = data[1].ts
        /\ results.entry_time >= signal.signal_time
        /\ results.sl_hit => Val(results.sl_hit_time) > results.entry_time
        /\ \A j \in HitSet : results.tp_hit_time[j] > results.entry_time
        /\ \A j \in DOMAIN results.tp_hit_time :
              results.tp_hit_time[j] > results.entry_time
        /\ ~IsNone(results.max_price_time) =>
              Val(results.max_price_time) > results.entry_time
        /\ ~IsNone(results.min_price_time) =>
              Val(results.min_price_time) > results.entry_time
        /\ (pc = "returned" /\ SlAt(1) /\ \A k \in 2..Len(data) : ~SlAt(k))
              => ~results.sl_hit
        /\ \A j \in Levels :
              (pc = "returned" /\ TpAt(1, j) /\ \A k \in 2..Len(data) : ~TpAt(k, j))
                 => j \notin HitSet

\* the close of the entry bar satisfies the stop-loss condition and the
\* condition of a take-profit; no stop-loss hit is recorded, and the
\* take-profit is recorded on a later bar
C17_Witness ==
    /\ pc = "returned"
    /\ SlAt(1)
    /\ ~results.sl_hit
    /\ \E j \in HitSet : TpAt(1, j)

\* C18: at every step of the walk the hit take-profit indices are a prefix
\* 0..k-1 of the direction-sorted list (also with equal levels), each index
\* is recorded once, and the hit times do not decrease with the index, so
\* the hit time of index k-1 is the latest take-profit hit time.
C18_HitSetIsPrefix ==
    HasResults =>
        LET k == Len(results.tp_hit)
        IN  /\ HitSet = 0..(k - 1)
            /\ Cardinality(HitSet) = k
            /\ \A n \in 1..k : results.tp_hit[n] = n - 1
            /\ DOMAIN results.tp_hit_time = HitSet
            /\ \A a \in HitSet : \A b \in HitSet :
                  a <= b => results.tp_hit_time[a] <= results.tp_hit_time[b]
            /\ k > 0 =>
                  results.tp_hit_time[k - 1] =
                      MaxOf({results.tp_hit_time[j] : j \in HitSet})
            /\ \A j \in Levels : \A n \in 2..LastRow :
                  (j \notin HitSet /\ pc # "walk" /\ ~results.sl_hit) => ~TpAt(n, j)

\* the walk goes on with the nearer level hit and the farther one not, and
\* the two levels differ
C18_Witness ==
    /\ pc = "walk"
    /\ NumLevels = 2
    /\ results.take_profits[1] # results.take_profits[2]
    /\ signal.take_profits # results.take_profits
    /\ HitSet = {0}
    /\ LastRow < Len(data)

----------------------------------------------------------------------------
(* Termination of fetch_historical_data, checked under SpecFetchLive *)

\* What is left of the range and of the retry budget
FetchMeasure ==
    (EndTime - fetch_position) * (max_attempts + 1) + (max_attempts - attempts)

\* C19: the fetch loop terminates for every behaviour of the exchange.
\* Every iteration strictly advances the fetch position, which never exceeds
\* the end time, or increments the attempt counter, or leaves the loop; the
\* counter goes back to 0 only when the position advanced, so at most 5
\* attempts in a row are unproductive; the call returns or raises.
C19_FetchTerminates ==
    /\ [][ pc = "loop" =>
              \/ /\ fetch_position' > fetch_position
                 /\ fetch_position' <= EndTime
                 /\ attempts' = 0
              \/ /\ attempts' = attempts + 1
                 /\ fetch_position' = fetch_position
              \/ /\ pc' = "after_loop"
                 /\ attempts' = attempts
                 /\ fetch_position' = fetch_position ]_vars
    /\ [][ attempts' < attempts => fetch_position' > fetch_position ]_vars
    /\ [][ (pc = "loop" /\ pc' = "loop") => FetchMeasure' < FetchMeasure ]_vars
    /\ [](attempts <= max_attempts /\ fetch_position <= EndTime)
    /\ <>(pc \in {"fetch_returned", "fetch_raised"})

\* the call is over after the position advanced twice and five attempts in
\* a row then failed, short of the end time
C19_Witness ==
    /\ pc = "fetch_returned"
    /\ Len(all_ohlcv) >= 2
    /\ attempts = max_attempts
    /\ fetch_position < EndTime

====
